---- MODULE Spec2Model ----
(***************************************************************************)
(* The agent proposal / confirmation workflow of the server: the           *)
(* agent_events, tasks and notes tables and the handlers agentPropose,     *)
(* createAgentEvent, updateAgentEvent and agentConfirm.  Every awaited     *)
(* database statement of a handler is one atomic step; agentConfirm issues *)
(* up to three statements, so several calls can interleave between them.   *)
(***************************************************************************)
EXTENDS Integers, Sequences, FiniteSets, TLC

VARIABLES
  events,   \* the agent_events table: the row of id i is events[i]
  tasks,    \* the tasks table: the row of id i is tasks[i]
  notes,    \* the notes table, by note id
  calls,    \* the agentConfirm calls made so far, each with its position
  ops,      \* the number of handler invocations so far
  ret,      \* what the last agentPropose, createAgentEvent or updateAgentEvent call gave its caller
  history,  \* per event: the handler that created it, the row as created, whether updateAgentEvent wrote it
  transcribes  \* the transcribeMeeting calls made so far, each with its position

vars == <<events, tasks, notes, calls, ops, ret, history, transcribes>>

(* ---------------------------------------------------------------- bounds *)
\* The number of handler invocations in one behaviour.
MaxOps == 3

(* ------------------------------------------------------- JSON and values *)
\* A JSON object is a record; NULL is null where an object may stand (input,
\* output, entities).  A scalar is a string; Undefined and Nil are JavaScript
\* undefined and null where a scalar may stand.
NULL == [json_null |-> TRUE]
Undefined == "<undefined>"
Nil == "<null>"

\* obj.key for a scalar property: undefined when the key is absent.
Get(obj, key) == IF key \in DOMAIN obj THEN obj[key] ELSE Undefined

\* obj.key !== undefined
Has(obj, key) == key \in DOMAIN obj

\* JavaScript truthiness of a scalar.
Truthy(v) == v # Undefined /\ v # Nil /\ v # ""

\* JavaScript a || b on scalars.
OrElse(a, b) == IF Truthy(a) THEN a ELSE b

\* obj.key || null for a property holding an object, null or nothing.
ObjectOrNull(obj, key) == IF key \in DOMAIN obj THEN obj[key] ELSE NULL

(* ------------------------------------------------------------- fixtures *)
\* Rows of the users, workspaces and notes tables that exist from the start.
Users == {"u1"}
Workspaces == {"w1", "w2"}
NoteIds == {"n1", "n2"}
NoEventId == 0

\* Ids are uuid columns and the handlers take any string: a string that is no
\* uuid makes every statement comparing it with an id throw.
MalformedEventId == -1
MalformedNoteId == "not-a-uuid"
MalformedWorkspaceId == "not-a-uuid"

agentEventStatusEnum == {"draft", "awaiting_confirmation", "executed", "error"}
taskPriorityEnum == {"low", "med", "high"}

InitialNote ==
  [workspace_id |-> "w1", title |-> "Test Note", content_md |-> "Original content",
   summary_text |-> Nil, entities |-> NULL, transcript_text |-> Nil, updated_at |-> 0]

(* ------------------------------------------------------------- payloads *)
TaskFull == [workspace_id |-> "w1", title |-> "T", assignee_id |-> "u1"]
TaskNoWorkspace == [title |-> "T", assignee_id |-> "u1"]
TaskTitleOnly == [title |-> "T"]
TaskOtherWorkspace == [workspace_id |-> "w2", title |-> "T", assignee_id |-> "u1"]
TaskEmptyDescription ==
  [workspace_id |-> "w1", title |-> "T", description |-> "", assignee_id |-> "u1"]
TaskDetailed ==
  [workspace_id |-> "w1", title |-> "T", description |-> "D", priority |-> "high",
   due_at |-> "2024-12-31T23:59:59Z", assignee_id |-> "u1", linked_note_id |-> "n1"]
NoteUpdate == [note_id |-> "n1", summary_text |-> "Updated summary"]
NoteContent == [note_id |-> "n1", content_md |-> "New content", entities |-> [people |-> "Ann"]]
NoteMissing == [note_id |-> "n9", summary_text |-> "Updated summary"]
NoteMalformed == [note_id |-> MalformedNoteId, summary_text |-> "Updated summary"]
EmptyObject == [empty_object |-> TRUE]
PatchOutput == [temp |-> "data"]

(* ---------------------------------------------------------- agentPropose *)
agentActions ==
  [NoteTakingAgent |-> "create_note", TaskAgent |-> "create_task",
   SchedulerAgent |-> "create_calendar_event", KnowledgeAgent |-> "extract_knowledge"]

\* agentActions is an object literal: a lookup by a key it does not own goes on
\* to Object.prototype, whose properties are functions.  FunctionText is such a
\* function as a text parameter carries it.
ObjectPrototypeKeys == {"constructor", "toString"}
FunctionText(key) ==
  IF key = "constructor" THEN "function Object() { [native code] }"
  ELSE "function " \o key \o "() { [native code] }"

\* ResolveAction with a slip: NoteAgent is given the action of its executor.
ResolveActionNoteAgent(agent) ==
  IF agent \in DOMAIN agentActions THEN agentActions[agent]
  ELSE IF agent \in ObjectPrototypeKeys THEN FunctionText(agent)
  ELSE IF agent = "NoteAgent" THEN "update_note"
  ELSE "propose_action"

\* agentActions[input.agent] || 'propose_action'
ResolveAction(agent) ==
  IF agent \in DOMAIN agentActions THEN agentActions[agent]
  ELSE IF agent \in ObjectPrototypeKeys THEN FunctionText(agent)
  ELSE "propose_action"

\* EventRow with a slip: the output column takes the payload.
EventRowOutputFromInput(workspace_id, agent, action, input, output, status) ==
  [workspace_id |-> workspace_id, agent |-> agent, action |-> action,
   input |-> input, output |-> input, status |-> status,
   created_at |-> Len(events) + 1]

\* A row of agent_events as the insert stores it.
EventRow(workspace_id, agent, action, input, output, status) ==
  [workspace_id |-> workspace_id, agent |-> agent, action |-> action,
   input |-> input, output |-> output, status |-> status,
   created_at |-> Len(events) + 1]

EventIds == 1..Len(events)

\* WorkspaceReferenced with a slip: no foreign key on the column.
WorkspaceUnreferenced(workspace_id) == TRUE

\* agent_events.workspace_id references workspaces.id.
WorkspaceReferenced(workspace_id) == workspace_id \in Workspaces

Init ==
  /\ events = <<>>
  /\ tasks = <<>>
  /\ notes = [n \in NoteIds |-> InitialNote]
  /\ calls = <<>>
  /\ ops = 0
  /\ ret = [op |-> "none"]
  /\ history = <<>>
  /\ transcribes = <<>>

\* agentPropose(input, workspaceId): one insert into agent_events.  The foreign
\* key on workspace_id makes the insert throw for an unknown workspace; an
\* action that is a function is stored as its text or rejected, as the
\* database driver has it.
AgentPropose(agent, input_json, workspaceId) ==
  /\ ops < MaxOps
  /\ ops' = ops + 1
  /\ \/ /\ WorkspaceReferenced(workspaceId)
        /\ events' = Append(events,
             EventRow(workspaceId, agent, ResolveAction(agent), input_json, NULL, "draft"))
        /\ ret' = [op |-> "agentPropose", ok |-> TRUE, id |-> Len(events) + 1]
        /\ history' = Append(history,
             [by |-> "agentPropose", row |-> events'[Len(events) + 1], patched |-> FALSE])
     \/ /\ ~WorkspaceReferenced(workspaceId)
        /\ UNCHANGED <<events, history>>
        /\ ret' = [op |-> "agentPropose", ok |-> FALSE, error |-> "foreign key violation"]
     \/ /\ agent \in ObjectPrototypeKeys
        /\ UNCHANGED <<events, history>>
        /\ ret' = [op |-> "agentPropose", ok |-> FALSE, error |-> "parameter rejected"]
  /\ UNCHANGED <<tasks, notes, calls, transcribes>>

\* The error of a statement the database rejects.
DatabaseError == "database statement failed"

(* ------------------------------------------------------ createAgentEvent *)
\* The status of the zod schema and of the column: draft when none is given.
StatusOrDefault(input) == IF Has(input, "status") THEN input.status ELSE "draft"

\* input.input || null, input.output || null; one insert, which fails on a
\* workspace_id that is no uuid and on one that references no workspace.
CreateAgentEvent(input) ==
  /\ ops < MaxOps
  /\ ops' = ops + 1
  /\ IF input.workspace_id = MalformedWorkspaceId
       THEN /\ UNCHANGED <<events, history>>
            /\ ret' = [op |-> "createAgentEvent", ok |-> FALSE, error |-> DatabaseError]
       ELSE IF WorkspaceReferenced(input.workspace_id)
       THEN /\ events' = Append(events,
                 EventRow(input.workspace_id, input.agent, input.action,
                          ObjectOrNull(input, "input"),
                          ObjectOrNull(input, "output"),
                          StatusOrDefault(input)))
            /\ ret' = [op |-> "createAgentEvent", ok |-> TRUE, id |-> Len(events) + 1]
            /\ history' = Append(history,
                 [by |-> "createAgentEvent", row |-> events'[Len(events) + 1], patched |-> FALSE])
       ELSE /\ UNCHANGED <<events, history>>
            /\ ret' = [op |-> "createAgentEvent", ok |-> FALSE, error |-> "foreign key violation"]
  /\ UNCHANGED <<tasks, notes, calls, transcribes>>

(* -------------------------------------------------------- getAgentEvents *)
\* The where clause: the workspace, and the status when one is given.
GetMatching(workspaceId, status) ==
  { e \in EventIds :
      /\ events[e].workspace_id = workspaceId
      /\ status # Undefined => events[e].status = status }

\* order by created_at desc, over the ids of the rows selected.
RECURSIVE OrderByCreatedAtDesc(_)
OrderByCreatedAtDesc(ids) ==
  IF ids = {} THEN <<>>
  ELSE LET newest == CHOOSE e \in ids :
                       \A f \in ids : events[f].created_at <= events[e].created_at
       IN <<newest>> \o OrderByCreatedAtDesc(ids \ {newest})

\* getAgentEvents(workspaceId, status?): one select, which fails on a
\* workspaceId that is no uuid.
GetAgentEvents(workspaceId, status) ==
  /\ ops < MaxOps
  /\ ops' = ops + 1
  /\ IF workspaceId = MalformedWorkspaceId
       THEN ret' = [op |-> "getAgentEvents", ok |-> FALSE, error |-> DatabaseError]
       ELSE LET ids == OrderByCreatedAtDesc(GetMatching(workspaceId, status))
            IN ret' = [op |-> "getAgentEvents", ok |-> TRUE,
                       results |-> [i \in 1..Len(ids) |->
                                      [id |-> ids[i], event |-> events[ids[i]]]]]
  /\ UNCHANGED <<events, tasks, notes, calls, history, transcribes>>

(* ------------------------------------------------------ updateAgentEvent *)
\* UpdateValues with a slip: the status of an executed or error event is kept.
UpdateValuesTerminalKept(row, input) ==
  [row EXCEPT
     !.output = IF Has(input, "output") THEN input.output ELSE @,
     !.status = IF Has(input, "status") /\ @ \notin {"executed", "error"}
                  THEN input.status ELSE @]

\* UpdateValues with a slip: an output that is not supplied is reset to null.
UpdateValuesResetOutput(row, input) ==
  [row EXCEPT
     !.output = IF Has(input, "output") THEN input.output ELSE NULL,
     !.status = IF Has(input, "status") THEN input.status ELSE @]

\* updateValues holds only the supplied fields.
UpdateValues(row, input) ==
  [row EXCEPT
     !.output = IF Has(input, "output") THEN input.output ELSE @,
     !.status = IF Has(input, "status") THEN input.status ELSE @]

\* One update statement; with no field supplied the update has nothing to set
\* and the statement throws.
UpdateAgentEvent(input) ==
  /\ ops < MaxOps
  /\ ops' = ops + 1
  /\ IF ~Has(input, "output") /\ ~Has(input, "status")
       THEN /\ UNCHANGED <<events, history>>
            /\ ret' = [op |-> "updateAgentEvent", ok |-> FALSE, error |-> "No values to set"]
       ELSE IF input.id = MalformedEventId
       THEN /\ UNCHANGED <<events, history>>
            /\ ret' = [op |-> "updateAgentEvent", ok |-> FALSE, error |-> DatabaseError]
       ELSE IF input.id \in EventIds
       THEN /\ events' = [events EXCEPT ![input.id] = UpdateValues(@, input)]
            /\ ret' = [op |-> "updateAgentEvent", ok |-> TRUE, id |-> input.id]
            /\ history' = [history EXCEPT ![input.id].patched = TRUE]
       ELSE /\ UNCHANGED <<events, history>>
            /\ ret' = [op |-> "updateAgentEvent", ok |-> FALSE, error |-> "not found"]
  /\ UNCHANGED <<tasks, notes, calls, transcribes>>

(* ---------------------------------------------------------- agentConfirm *)
NotFoundError == "Agent event not found"
NotAwaitingError == "is not awaiting confirmation"
NoTaskInputError == "No input data found for task creation"
NoNoteInputError == "No input data found for note update"
NoteNotFoundError == "Note not found"
UnsupportedError == "Unsupported agent action"

\* The executor lookup with a slip: the action alone selects the executor.
IsCreateTaskByAction(ev) == ev.action = "create_task"
IsUpdateNoteByAction(ev) == ev.action = "update_note"

IsCreateTask(ev) == ev.agent = "TaskAgent" /\ ev.action = "create_task"
IsUpdateNote(ev) == ev.agent = "NoteAgent" /\ ev.action = "update_note"

\* ThrownAfterSelect with a slip: the status is not checked.
ThrownAfterSelectAnyStatus(rows) ==
  IF rows = <<>> THEN NotFoundError
  ELSE IF IsCreateTask(rows[1])
    THEN IF rows[1].input = NULL THEN NoTaskInputError ELSE ""
  ELSE IF IsUpdateNote(rows[1])
    THEN IF rows[1].input = NULL THEN NoNoteInputError ELSE ""
  ELSE UnsupportedError

\* What the code between the select and the executor's statement throws
\* synchronously, "" when it reaches the statement.
ThrownAfterSelect(rows) ==
  IF rows = <<>> THEN NotFoundError
  ELSE IF rows[1].status # "awaiting_confirmation" THEN NotAwaitingError
  ELSE IF IsCreateTask(rows[1])
    THEN IF rows[1].input = NULL THEN NoTaskInputError ELSE ""
  ELSE IF IsUpdateNote(rows[1])
    THEN IF rows[1].input = NULL THEN NoNoteInputError ELSE ""
  ELSE UnsupportedError

\* select ... where id = agent_event_id, and the checks that follow it.
ConfirmSelect(id) ==
  /\ ops < MaxOps
  /\ ops' = ops + 1
  /\ LET rows == IF id \in EventIds THEN <<events[id]>> ELSE <<>>
         thrown == IF id = MalformedEventId THEN DatabaseError
                   ELSE ThrownAfterSelect(rows)
     IN calls' = Append(calls,
          [agent_event_id |-> id,
           agentEvent |-> IF rows = <<>> THEN NULL ELSE rows[1],
           pc |-> IF thrown = "" THEN "execute" ELSE "catch",
           actionOutput |-> NULL,
           error |-> thrown,
           updateError |-> FALSE,
           result |-> NULL])
  /\ UNCHANGED <<events, tasks, notes, ret, history, transcribes>>

\* new Date(string) as the timestamp column stores it: the instant in ISO form
\* with milliseconds, or an invalid date.
ParseDate(string) ==
  IF string = "2024-12-31T23:59:59Z" THEN "2024-12-31T23:59:59.000Z"
  ELSE "Invalid Date"

\* TaskValues with a slip: a missing priority becomes low.
TaskValuesDefaultLow(taskInput) ==
  [workspace_id |-> Get(taskInput, "workspace_id"),
   title |-> Get(taskInput, "title"),
   description |-> OrElse(Get(taskInput, "description"), Nil),
   status |-> "todo",
   priority |-> OrElse(Get(taskInput, "priority"), "low"),
   due_at |-> IF Truthy(Get(taskInput, "due_at")) THEN ParseDate(taskInput.due_at) ELSE Nil,
   assignee_id |-> Get(taskInput, "assignee_id"),
   linked_note_id |-> OrElse(Get(taskInput, "linked_note_id"), Nil)]

\* The values the task insert sends, from the payload.
TaskValues(taskInput) ==
  [workspace_id |-> Get(taskInput, "workspace_id"),
   title |-> Get(taskInput, "title"),
   description |-> OrElse(Get(taskInput, "description"), Nil),
   status |-> "todo",
   priority |-> OrElse(Get(taskInput, "priority"), "med"),
   due_at |-> IF Truthy(Get(taskInput, "due_at")) THEN ParseDate(taskInput.due_at) ELSE Nil,
   assignee_id |-> Get(taskInput, "assignee_id"),
   linked_note_id |-> OrElse(Get(taskInput, "linked_note_id"), Nil)]

\* TaskInsertAccepted with a slip: tasksTable has no constraints.
TaskInsertUnconstrained(row) == TRUE

\* The constraints of tasksTable: not-null columns, the enum, foreign keys.
TaskInsertAccepted(row) ==
  /\ row.workspace_id \in Workspaces
  /\ row.title # Undefined
  /\ row.assignee_id \in Users
  /\ row.priority \in taskPriorityEnum
  /\ row.due_at # "Invalid Date"
  /\ row.linked_note_id = Nil \/ row.linked_note_id \in NoteIds

\* NoteUpdateData with a slip: all three fields are set, present or not.
NoteUpdateDataAll(note, noteInput) ==
  [note EXCEPT
     !.summary_text = Get(noteInput, "summary_text"),
     !.entities = ObjectOrNull(noteInput, "entities"),
     !.content_md = Get(noteInput, "content_md"),
     !.updated_at = @ + 1]

\* updateData of the note update: only the keys present, plus updated_at.
NoteUpdateData(note, noteInput) ==
  [note EXCEPT
     !.summary_text = IF Has(noteInput, "summary_text")
                        THEN noteInput.summary_text ELSE @,
     !.entities = IF Has(noteInput, "entities")
                    THEN noteInput.entities ELSE @,
     !.content_md = IF Has(noteInput, "content_md")
                      THEN noteInput.content_md ELSE @,
     !.updated_at = @ + 1]

ConfirmExecuteTask(c) ==
  /\ calls[c].pc = "execute"
  /\ IsCreateTask(calls[c].agentEvent)
  /\ LET row == TaskValues(calls[c].agentEvent.input)
     IN IF TaskInsertAccepted(row)
          THEN /\ tasks' = Append(tasks, row)
               /\ calls' = [calls EXCEPT ![c].pc = "write",
                              ![c].actionOutput =
                                [task_id |-> Len(tasks) + 1,
                                 message |-> "Task created successfully"]]
          ELSE /\ tasks' = tasks
               /\ calls' = [calls EXCEPT ![c].pc = "catch", ![c].error = DatabaseError]
  /\ UNCHANGED <<events, notes, ops, ret, history, transcribes>>

\* updatedNote.length === 0
NoUpdatedNote(updatedNote) == Len(updatedNote) = 0

\* update notes set updateData where id = note_id returning: the rows matched.
ConfirmExecuteNote(c) ==
  /\ calls[c].pc = "execute"
  /\ IsUpdateNote(calls[c].agentEvent)
  /\ LET noteInput == calls[c].agentEvent.input
         note_id == Get(noteInput, "note_id")
         updatedNote == IF note_id \in NoteIds THEN <<note_id>> ELSE <<>>
     IN /\ notes' = [n \in NoteIds |->
                       IF n = note_id THEN NoteUpdateData(notes[n], noteInput) ELSE notes[n]]
        /\ IF note_id = MalformedNoteId
             THEN calls' = [calls EXCEPT ![c].pc = "catch", ![c].error = DatabaseError]
             ELSE IF NoUpdatedNote(updatedNote)
             THEN calls' = [calls EXCEPT ![c].pc = "catch", ![c].error = NoteNotFoundError]
             ELSE calls' = [calls EXCEPT ![c].pc = "write",
                              ![c].actionOutput =
                                [note_id |-> note_id,
                                 message |-> "Note updated successfully"]]
  /\ UNCHANGED <<events, tasks, ops, ret, history, transcribes>>

\* SetEvent with a slip: the update also clears the input.
SetEventClearInput(id, status, output) ==
  IF id \in EventIds
    THEN [events EXCEPT ![id].status = status, ![id].output = output, ![id].input = NULL]
    ELSE events

\* SetEvent with a slip: the update sets the output and leaves the status.
SetEventOutputOnly(id, status, output) ==
  IF id \in EventIds
    THEN [events EXCEPT ![id].output = output]
    ELSE events

\* update agent_events set status, output where id = ...: no row, no change.
SetEvent(id, status, output) ==
  IF id \in EventIds
    THEN [events EXCEPT ![id].status = status, ![id].output = output]
    ELSE events

ConfirmWriteExecuted(c) ==
  /\ calls[c].pc = "write"
  /\ events' = SetEvent(calls[c].agent_event_id, "executed", calls[c].actionOutput)
  /\ calls' = [calls EXCEPT ![c].pc = "returned",
                 ![c].result = events'[calls[c].agent_event_id]]
  /\ UNCHANGED <<tasks, notes, ops, ret, history, transcribes>>

\* The catch block: the best-effort write of the error status, then rethrow.
ConfirmWriteError(c) ==
  /\ calls[c].pc = "catch"
  /\ events' = SetEvent(calls[c].agent_event_id, "error", [error |-> calls[c].error])
  /\ calls' = [calls EXCEPT ![c].pc = "thrown",
                 ![c].updateError = (calls[c].agent_event_id = MalformedEventId)]
  /\ UNCHANGED <<tasks, notes, ops, ret, history, transcribes>>

\* A statement on agent_events that the database rejects or cannot run: the
\* write of the executed status throws into the catch block, the write of the
\* error status is caught and logged as updateError.
ConfirmWriteExecutedFails(c) ==
  /\ calls[c].pc = "write"
  /\ calls' = [calls EXCEPT ![c].pc = "catch", ![c].error = DatabaseError]
  /\ UNCHANGED <<events, tasks, notes, ops, ret, history, transcribes>>

\* ConfirmWriteErrorFails with a slip: the failure of the error write is thrown
\* in place of the original error.
ConfirmWriteErrorFailsRethrown(c) ==
  /\ calls[c].pc = "catch"
  /\ calls' = [calls EXCEPT ![c].pc = "thrown", ![c].updateError = TRUE,
                 ![c].error = "update failed"]
  /\ UNCHANGED <<events, tasks, notes, ops, ret, history, transcribes>>

ConfirmWriteErrorFails(c) ==
  /\ calls[c].pc = "catch"
  /\ calls' = [calls EXCEPT ![c].pc = "thrown", ![c].updateError = TRUE]
  /\ UNCHANGED <<events, tasks, notes, ops, ret, history, transcribes>>

\* The server process stops between the executor's statement of a call and its
\* write of the executed status: no statement runs in a transaction, so what
\* the executor wrote stays and the call takes no further step.
ConfirmCrash(c) ==
  /\ calls[c].pc = "write"
  /\ calls' = [calls EXCEPT ![c].pc = "crashed"]
  /\ UNCHANGED <<events, tasks, notes, ops, ret, history, transcribes>>

(* ------------------------------------------------------ transcribeMeeting *)
\* simulateAudioTranscription: the chunk depends on the length of the audio.
SimulateAudioTranscription(chunkSize) ==
  IF chunkSize < 100 THEN "Hello"
  ELSE IF chunkSize < 500 THEN "Hello everyone, welcome to today's meeting."
  ELSE IF chunkSize < 1000
    THEN "We need to discuss the quarterly results and plan for next month."
  ELSE "The project is progressing well, but we need to address some technical challenges that have emerged this week."

\* String.prototype.trim on the texts at hand: leading and trailing spaces go.
RECURSIVE TrimStart(_)
TrimStart(text) ==
  IF Len(text) > 0 /\ SubSeq(text, 1, 1) = " "
    THEN TrimStart(SubSeq(text, 2, Len(text))) ELSE text
RECURSIVE TrimEnd(_)
TrimEnd(text) ==
  IF Len(text) > 0 /\ SubSeq(text, Len(text), Len(text)) = " "
    THEN TrimEnd(SubSeq(text, 1, Len(text) - 1)) ELSE text
Trim(text) == TrimEnd(TrimStart(text))

\* The call up to its first statement: an empty audio chunk throws, a call
\* without note_id returns the chunk at once.
TranscribeStart(chunkSize, note_id) ==
  /\ ops < MaxOps
  /\ ops' = ops + 1
  /\ transcribes' = Append(transcribes,
       [note_id |-> note_id,
        transcriptChunk |-> IF chunkSize = 0 THEN "" ELSE SimulateAudioTranscription(chunkSize),
        currentTranscript |-> "",
        pc |-> IF chunkSize = 0 THEN "thrown"
               ELSE IF Truthy(note_id) THEN "select" ELSE "returned"])
  /\ UNCHANGED <<events, tasks, notes, calls, ret, history>>

\* select from notes where id = noteId; existingNote.transcript_text || ''.
TranscribeSelect(t) ==
  /\ transcribes[t].pc = "select"
  /\ transcribes' =
       IF transcribes[t].note_id \in NoteIds
         THEN [transcribes EXCEPT ![t].pc = "update",
                 ![t].currentTranscript =
                   OrElse(notes[transcribes[t].note_id].transcript_text, "")]
         ELSE [transcribes EXCEPT ![t].pc = "thrown"]
  /\ UNCHANGED <<events, tasks, notes, calls, ops, ret, history>>

\* (currentTranscript + ' ' + transcriptChunk).trim()
TranscriptUpdated(currentTranscript, transcriptChunk) ==
  Trim(currentTranscript \o " " \o transcriptChunk)

\* update notes set transcript_text, updated_at where id = noteId.
TranscribeUpdate(t) ==
  /\ transcribes[t].pc = "update"
  /\ notes' = [notes EXCEPT ![transcribes[t].note_id] =
                [@ EXCEPT !.transcript_text =
                            TranscriptUpdated(transcribes[t].currentTranscript,
                                              transcribes[t].transcriptChunk),
                          !.updated_at = @ + 1]]
  /\ transcribes' = [transcribes EXCEPT ![t].pc = "returned"]
  /\ UNCHANGED <<events, tasks, calls, ops, ret, history>>

\* No agentConfirm call is between two of its statements.
Quiet == \A c \in DOMAIN calls : calls[c].pc \in {"returned", "thrown"}

(* ----------------------------------------------------------- input sets *)
ProposeAgents == {"TaskAgent", "NoteAgent"}
ProposePayloads == {TaskFull, TaskNoWorkspace}
ProposeWorkspaces == {"w1", "w0"}

\* Agent strings of every kind: the four keys of agentActions, the agents of the
\* executors, an unknown name, the empty string, keys of Object.prototype.
AgentStrings ==
  {"NoteTakingAgent", "TaskAgent", "SchedulerAgent", "KnowledgeAgent",
   "NoteAgent", "UnknownAgent", ""} \cup ObjectPrototypeKeys

\* Events a caller stores directly: every (agent, action) case awaiting
\* confirmation, and events created in other statuses or with an output.
CreateInput(agent, action, input, output, status) ==
  [workspace_id |-> "w1", agent |-> agent, action |-> action, input |-> input,
   output |-> output, status |-> status]

CreateInputs ==
  { CreateInput(t[1], t[2], t[3], NULL, "awaiting_confirmation") :
      t \in { <<"TaskAgent", "create_task", TaskFull>>,
              <<"TaskAgent", "create_task", TaskDetailed>>,
              <<"TaskAgent", "create_task", TaskOtherWorkspace>>,
              <<"TaskAgent", "create_task", TaskEmptyDescription>>,
              <<"TaskAgent", "create_task", TaskTitleOnly>>,
              <<"TaskAgent", "create_task", NULL>>,
              <<"NoteAgent", "update_note", NoteUpdate>>,
              <<"NoteAgent", "update_note", NoteContent>>,
              <<"NoteAgent", "update_note", NoteMissing>>,
              <<"NoteAgent", "update_note", NoteMalformed>>,
              <<"UnknownAgent", "unknown_action", EmptyObject>>,
              <<"TaskAgent", "update_note", NoteUpdate>>,
              <<"NoteAgent", "create_task", TaskFull>> } }
  \cup { CreateInput("TaskAgent", "create_task", TaskFull, NULL, "draft"),
         CreateInput("TaskAgent", "create_task", TaskFull, PatchOutput, "draft"),
         CreateInput("TaskAgent", "create_task", TaskTitleOnly, NULL, "executed") }

UpdateInputs ==
  { [id |-> i, status |-> s] :
      i \in {NoEventId} \cup EventIds, s \in agentEventStatusEnum }
  \cup { [id |-> i, output |-> o] :
      i \in {NoEventId} \cup EventIds, o \in {NULL, PatchOutput} }
  \cup { [id |-> i, status |-> "executed", output |-> PatchOutput] : i \in EventIds }
  \cup { [id |-> i] : i \in {NoEventId} \cup EventIds }
  \cup { [id |-> MalformedEventId, status |-> "executed"] }

(* ------------------------------------------------------- specifications *)
Propose == \E a \in ProposeAgents, p \in ProposePayloads, w \in ProposeWorkspaces :
             AgentPropose(a, p, w)
Create == \E input \in CreateInputs : CreateAgentEvent(input)
Update == \E input \in UpdateInputs : UpdateAgentEvent(input)
Select == \E id \in {NoEventId, MalformedEventId} \cup EventIds : ConfirmSelect(id)
ExecuteTask == \E c \in DOMAIN calls : ConfirmExecuteTask(c)
ExecuteNote == \E c \in DOMAIN calls : ConfirmExecuteNote(c)
WriteExecuted == \E c \in DOMAIN calls : ConfirmWriteExecuted(c)
WriteError == \E c \in DOMAIN calls : ConfirmWriteError(c)
WriteExecutedFails == \E c \in DOMAIN calls : ConfirmWriteExecutedFails(c)
WriteErrorFails == \E c \in DOMAIN calls : ConfirmWriteErrorFails(c)

\* A statement of some agentConfirm call.
Confirm == Select \/ ExecuteTask \/ ExecuteNote \/ WriteExecuted \/ WriteError

\* Handlers run concurrently: any call may take its next statement at any time.
Next == Propose \/ Create \/ Update \/ Confirm

Spec == Init /\ [][Next]_vars

\* Handlers run one after another: a handler starts only when no agentConfirm
\* call is in flight.
StartSeq == Quiet /\ (Propose \/ Create \/ Update \/ Select)
NextSeq == StartSeq \/ ExecuteTask \/ ExecuteNote \/ WriteExecuted \/ WriteError

SpecSeq == Init /\ [][NextSeq]_vars

\* Concurrent handlers, and the two writes of agentConfirm on agent_events may fail.
NextFault == Next \/ WriteExecutedFails \/ WriteErrorFails

SpecFault == Init /\ [][NextFault]_vars

\* As SpecFault, and the process may stop after an executor's statement.
Crash == \E c \in DOMAIN calls : ConfirmCrash(c)
NextCrash == NextFault \/ Crash

SpecCrash == Init /\ [][NextCrash]_vars

\* agentPropose alone, called with agent strings of every kind.
ProposeAny == \E a \in AgentStrings, p \in ProposePayloads, w \in ProposeWorkspaces :
                AgentPropose(a, p, w)
NextPropose == ProposeAny

SpecPropose == Init /\ [][NextPropose]_vars

\* The proposal workflow with agent strings of every kind: agentPropose,
\* updateAgentEvent and agentConfirm, next to one directly stored update_note
\* event.
CreateNoteEvent ==
  CreateAgentEvent(CreateInput("NoteAgent", "update_note", NoteUpdate, NULL,
                               "awaiting_confirmation"))
NextProposed == ProposeAny \/ CreateNoteEvent \/ Update \/ Confirm

SpecProposed == Init /\ [][NextProposed]_vars

\* transcribeMeeting alone, its calls overlapping freely: audio chunks of
\* three lengths, for an existing note, for no note and without note_id.
ChunkSizes == {0, 50, 200}
TranscribeNotes == {"n1", "n9", Undefined}
Transcribe == \E size \in ChunkSizes, n \in TranscribeNotes : TranscribeStart(size, n)
SelectNote == \E t \in DOMAIN transcribes : TranscribeSelect(t)
UpdateNote == \E t \in DOMAIN transcribes : TranscribeUpdate(t)
NextTranscribe == Transcribe \/ SelectNote \/ UpdateNote

SpecTranscribe == Init /\ [][NextTranscribe]_vars

\* createAgentEvent and getAgentEvents alone: events of two workspaces and of
\* every status, with and without input, output and status; queries by
\* workspace, with and without a status.
QueryWorkspaces == Workspaces \cup {"w0", MalformedWorkspaceId}
CreateAnyInputs ==
  { [workspace_id |-> w, agent |-> "TaskAgent", action |-> "create_task"] :
      w \in QueryWorkspaces }
  \cup { [workspace_id |-> w, agent |-> "calendar", action |-> "create_event",
          input |-> i, output |-> o, status |-> st] :
          w \in Workspaces, i \in {NULL, EmptyObject}, o \in {NULL, PatchOutput},
          st \in {"draft", "executed"} }
CreateAny == \E input \in CreateAnyInputs : CreateAgentEvent(input)
GetEvents == \E w \in QueryWorkspaces, st \in agentEventStatusEnum \cup {Undefined} :
               GetAgentEvents(w, st)
NextQuery == CreateAny \/ GetEvents

SpecQuery == Init /\ [][NextQuery]_vars

\* A step of the intended lifecycle: agentPropose, agentConfirm, createAgentEvent
\* without an output, or updateAgentEvent moving a draft event to
\* awaiting_confirmation.
CreateWithoutOutput ==
  \E input \in CreateInputs : input.output = NULL /\ CreateAgentEvent(input)
UpdateToAwaiting ==
  \E id \in EventIds :
    /\ events[id].status = "draft"
    /\ UpdateAgentEvent([id |-> id, status |-> "awaiting_confirmation"])
LifecycleStep == Propose \/ CreateWithoutOutput \/ UpdateToAwaiting \/ Confirm

(* ================================================================ claims *)
\* Call c takes the last statement of agentConfirm in this step.
Completes(c) ==
  /\ calls[c].pc \in {"write", "catch"}
  /\ calls'[c].pc \in {"returned", "thrown"}

\* The status call c read in its select, "" when it found no event.
StatusRead(c) ==
  IF calls[c].agentEvent = NULL THEN "" ELSE calls[c].agentEvent.status

\* C1: an agentConfirm call on an event whose status is executed or error fails
\* with the not-awaiting-confirmation error and leaves the event's stored status
\* and output as they were before the call.
C1_TerminalEventUntouched ==
  [][\A c \in DOMAIN calls :
       (Completes(c) /\ StatusRead(c) \in {"executed", "error"}) =>
         /\ calls'[c].pc = "thrown"
         /\ calls'[c].error = NotAwaitingError
         /\ events'[calls[c].agent_event_id].status = calls[c].agentEvent.status
         /\ events'[calls[c].agent_event_id].output = calls[c].agentEvent.output]_vars

\* C2: of the agentConfirm calls in flight on one awaiting_confirmation event,
\* only one runs the executor: no two calls on the same event id are both past
\* the executor's statement and before their write of the executed status.
C2_ExactlyOneExecution ==
  \A c, d \in DOMAIN calls :
    (c # d /\ calls[c].agent_event_id = calls[d].agent_event_id /\ calls[c].pc = "write")
      => calls[d].pc # "write"

\* C3: an agentConfirm call on a draft event fails with the not-awaiting error
\* and writes nothing: the event is still draft with its output, and the tasks
\* and notes tables are unchanged.
C3_DraftUntouched ==
  [][\A c \in DOMAIN calls :
       (Completes(c) /\ StatusRead(c) = "draft") =>
         /\ calls'[c].pc = "thrown"
         /\ calls'[c].error = NotAwaitingError
         /\ events'[calls[c].agent_event_id].status = "draft"
         /\ events'[calls[c].agent_event_id].output = calls[c].agentEvent.output
         /\ tasks' = tasks
         /\ notes' = notes]_vars

\* C4 as claimed: when an agentConfirm call that read its event as
\* awaiting_confirmation completes, the stored status is executed or error, also
\* when the write of the error status fails.
C4_NeverLeftAwaiting ==
  [][\A c \in DOMAIN calls :
       (Completes(c) /\ StatusRead(c) = "awaiting_confirmation") =>
         events'[calls[c].agent_event_id].status \in {"executed", "error"}]_vars

\* C4 amended: when such a call completes, the stored status is executed if it
\* returns and error if it throws, unless the write of the error status failed:
\* that failure is logged and the event is left as it was.
C4_TerminalUnlessErrorWriteFails ==
  [][\A c \in DOMAIN calls :
       (Completes(c) /\ StatusRead(c) = "awaiting_confirmation") =>
         IF calls'[c].updateError
           THEN events' = events
           ELSE events'[calls[c].agent_event_id].status =
                  (IF calls'[c].pc = "returned" THEN "executed" ELSE "error")]_vars

\* C4 witness: a call that read its event as awaiting_confirmation has thrown and
\* the event is in error, and another such call has thrown after its error write
\* failed.
C4_Witness ==
  \E c, d \in DOMAIN calls :
    /\ calls[c].pc = "thrown" /\ StatusRead(c) = "awaiting_confirmation"
    /\ ~calls[c].updateError
    /\ events[calls[c].agent_event_id].status = "error"
    /\ calls[d].pc = "thrown" /\ StatusRead(d) = "awaiting_confirmation"
    /\ calls[d].updateError

\* C5 as claimed: every event whose status is draft or awaiting_confirmation has
\* output null.
C5_OutputNullity ==
  \A e \in EventIds :
    events[e].status \in {"draft", "awaiting_confirmation"} => events[e].output = NULL

\* C5 amended: every step of agentPropose and agentConfirm, of createAgentEvent
\* without an output and of updateAgentEvent moving a draft event to
\* awaiting_confirmation keeps it so: if every draft or awaiting_confirmation
\* event has output null before the step, the same holds after it.
C5_LifecycleKeepsOutputNull ==
  [][LifecycleStep => (C5_OutputNullity => C5_OutputNullity')]_vars

\* C5 witness: updateAgentEvent has just moved an event that agentPropose
\* created to awaiting_confirmation, and its output is null.
C5_Witness ==
  \E e \in EventIds :
    /\ history[e].by = "agentPropose"
    /\ ret = [op |-> "updateAgentEvent", ok |-> TRUE, id |-> e]
    /\ events[e].status = "awaiting_confirmation" /\ events[e].output = NULL

Unregistered(c) ==
  /\ StatusRead(c) = "awaiting_confirmation"
  /\ ~(calls[c].agentEvent.agent = "TaskAgent" /\ calls[c].agentEvent.action = "create_task")
  /\ ~(calls[c].agentEvent.agent = "NoteAgent" /\ calls[c].agentEvent.action = "update_note")

C8_ClosedAllowList ==
  [][ /\ tasks' # tasks =>
           \E c \in DOMAIN calls :
             /\ calls'[c] # calls[c]
             /\ events[calls[c].agent_event_id].agent = "TaskAgent"
             /\ events[calls[c].agent_event_id].action = "create_task"
      /\ notes' # notes =>
           \E c \in DOMAIN calls :
             /\ calls'[c] # calls[c]
             /\ events[calls[c].agent_event_id].agent = "NoteAgent"
             /\ events[calls[c].agent_event_id].action = "update_note" ]_vars

\* C8 witness: a call on an awaiting_confirmation event with the mixed pair
\* (NoteAgent, create_task) and a payload that a Task could be made of has
\* completed, and both tables are as at the start.
C8_Witness ==
  \E c \in DOMAIN calls :
    /\ calls[c].pc = "thrown"
    /\ StatusRead(c) = "awaiting_confirmation"
    /\ calls[c].agentEvent.agent = "NoteAgent" /\ calls[c].agentEvent.action = "create_task"
    /\ calls[c].agentEvent.input = TaskFull
    /\ tasks = <<>>
    /\ notes = [n \in NoteIds |-> InitialNote]

\* C9: an event that agentPropose created for TaskAgent with input_json
\* {title, assignee_id} and that was moved to awaiting_confirmation, when
\* confirmed, ends executed with output {task_id, message} and a Task with that
\* title, status todo and priority med exists.
C9_ProposePatchConfirm ==
  [][\A c \in DOMAIN calls :
       ( /\ Completes(c)
         /\ StatusRead(c) = "awaiting_confirmation"
         /\ history[calls[c].agent_event_id].by = "agentPropose"
         /\ calls[c].agentEvent.agent = "TaskAgent"
         /\ calls[c].agentEvent.input = TaskNoWorkspace ) =>
         /\ calls'[c].pc = "returned"
         /\ events'[calls[c].agent_event_id].status = "executed"
         /\ \E t \in DOMAIN tasks' :
              /\ events'[calls[c].agent_event_id].output =
                   [task_id |-> t, message |-> "Task created successfully"]
              /\ tasks'[t].title = "T"
              /\ tasks'[t].status = "todo"
              /\ tasks'[t].priority = "med"]_vars

C11_Resolved(agent) ==
  CASE agent = "NoteTakingAgent" -> "create_note"
    [] agent = "TaskAgent" -> "create_task"
    [] agent = "SchedulerAgent" -> "create_calendar_event"
    [] agent = "KnowledgeAgent" -> "extract_knowledge"
    [] OTHER -> "propose_action"

\* C11: action resolution in agentPropose is total: for every agent string and an
\* existing workspace the call does not fail, and the action of the event it
\* stores is create_note, create_task, create_calendar_event or
\* extract_knowledge for NoteTakingAgent, TaskAgent, SchedulerAgent or
\* KnowledgeAgent and propose_action for every other string.
C11_ResolutionTotal ==
  [][\A a \in AgentStrings, p \in ProposePayloads, w \in Workspaces :
       AgentPropose(a, p, w) =>
         /\ ret'.ok
         /\ events'[ret'.id].action = C11_Resolved(a)]_vars

C13_ExecutorErrors ==
  {NoTaskInputError, NoNoteInputError, DatabaseError, NoteNotFoundError}

\* A create_task event whose payload is null or lacks assignee_id or workspace_id.
C13_FailingPayload(ev) ==
  /\ IsCreateTask(ev)
  /\ \/ ev.input = NULL
     \/ ~Has(ev.input, "assignee_id")
     \/ ~Has(ev.input, "workspace_id")

C14_Task(p) ==
  [workspace_id |-> p.workspace_id, title |-> p.title, assignee_id |-> p.assignee_id,
   status |-> "todo",
   priority |-> IF Has(p, "priority") THEN p.priority ELSE "med",
   description |-> IF Has(p, "description") THEN p.description ELSE Nil,
   due_at |-> IF Has(p, "due_at") THEN "2024-12-31T23:59:59.000Z" ELSE Nil,
   linked_note_id |-> IF Has(p, "linked_note_id") THEN p.linked_note_id ELSE Nil]

\* Call c read an awaiting_confirmation (TaskAgent, create_task) event.
C14_TaskCall(c) ==
  /\ StatusRead(c) = "awaiting_confirmation"
  /\ calls[c].agentEvent.agent = "TaskAgent"
  /\ calls[c].agentEvent.action = "create_task"

\* The Task the amended claim gives: an empty string counts as absent.
C14_TaskOrElse(p) ==
  [C14_Task(p) EXCEPT
     !.priority = IF Has(p, "priority") /\ p.priority # "" THEN p.priority ELSE "med",
     !.description = IF Has(p, "description") /\ p.description # ""
                       THEN p.description ELSE Nil]

\* The steps of call c on a create_task event, for the Task expected of it: the
\* executor statement inserts exactly that Task, and the last statement of a
\* returning call inserts nothing, stores status executed and output {task_id:
\* id of that Task, message} and returns the event as stored.
C14_CallSteps(c, task) ==
  /\ (calls[c].pc = "execute" /\ calls'[c].pc = "write") =>
       /\ tasks' = Append(tasks, task)
       /\ calls'[c].actionOutput.task_id = Len(tasks')
  /\ (Completes(c) /\ calls'[c].pc = "returned") =>
       /\ tasks' = tasks
       /\ calls[c].actionOutput.task_id \in DOMAIN tasks
       /\ tasks[calls[c].actionOutput.task_id] = task
       /\ events'[calls[c].agent_event_id].status = "executed"
       /\ events'[calls[c].agent_event_id].output =
            [task_id |-> calls[c].actionOutput.task_id,
             message |-> "Task created successfully"]
       /\ calls'[c].result = events'[calls[c].agent_event_id]

\* C14 as claimed: an agentConfirm call on a (TaskAgent, create_task) event that
\* returns has inserted exactly one Task with the payload's fields, priority med
\* when the payload has none, status todo, and description, due_at and
\* linked_note_id null when absent; it stores status executed and output
\* {task_id, message: 'Task created successfully'} and returns the event as
\* stored.
C14_TaskCreated ==
  [][\A c \in DOMAIN calls :
       C14_TaskCall(c) => C14_CallSteps(c, C14_Task(calls[c].agentEvent.input))]_vars

\* C14 amended: the same, where a description or priority that is the empty
\* string is stored like an absent one: description null, priority med.
C14_TaskCreatedOrElse ==
  [][\A c \in DOMAIN calls :
       C14_TaskCall(c) => C14_CallSteps(c, C14_TaskOrElse(calls[c].agentEvent.input))]_vars

\* C14 witness: a call on an event whose payload has an empty description has
\* returned the executed event, and the one Task has priority med and no
\* description, due date or linked note.
C14_Witness ==
  \E c \in DOMAIN calls :
    /\ calls[c].pc = "returned"
    /\ calls[c].agentEvent.input = TaskEmptyDescription
    /\ calls[c].result.status = "executed"
    /\ calls[c].result.output = [task_id |-> 1, message |-> "Task created successfully"]
    /\ Len(tasks) = 1
    /\ tasks[1].priority = "med" /\ tasks[1].description = Nil
    /\ tasks[1].due_at = Nil /\ tasks[1].linked_note_id = Nil

\* C15: updateAgentEvent overwrites exactly the fields supplied: the stored
\* output changes only when output is supplied (an explicit null included) and
\* the stored status only when status is supplied; the event's workspace_id,
\* agent, action, input and created_at and its position in the table are
\* unchanged, and no other event is modified or created.
C15_PatchExact ==
  [][\A input \in UpdateInputs :
       UpdateAgentEvent(input) =>
         /\ Len(events') = Len(events)
         /\ \A e \in EventIds :
              IF e = input.id
                THEN /\ events'[e].output =
                          (IF "output" \in DOMAIN input THEN input.output ELSE events[e].output)
                     /\ events'[e].status =
                          (IF "status" \in DOMAIN input THEN input.status ELSE events[e].status)
                     /\ \A f \in {"workspace_id", "agent", "action", "input", "created_at"} :
                          events'[e][f] = events[e][f]
                ELSE events'[e] = events[e]]_vars

\* C15 witness: an event created draft with an output was patched with a status
\* only, and then with a null output only: it is executed with output null.
C15_Witness ==
  \E e \in EventIds :
    /\ history[e].row.status = "draft" /\ history[e].row.output = PatchOutput
    /\ ret = [op |-> "updateAgentEvent", ok |-> TRUE, id |-> e]
    /\ events[e].status = "executed" /\ events[e].output = NULL

\* C16: no operation changes the input of an existing event: in every reachable
\* state, whatever calls of agentPropose, createAgentEvent, updateAgentEvent and
\* agentConfirm were made and whether they succeeded or failed, every event's
\* input, workspace_id, agent, action and created_at are the values it was
\* created with.
C16_InputImmutable ==
  /\ Len(history) = Len(events)
  /\ \A e \in EventIds :
       \A f \in {"input", "workspace_id", "agent", "action", "created_at"} :
         events[e][f] = history[e].row[f]

\* C16 witness: an event created as a draft was patched by updateAgentEvent and
\* then written by a completed agentConfirm call, so its status and output are
\* no longer those it was created with.
C16_Witness ==
  \E c \in DOMAIN calls :
    /\ calls[c].pc \in {"returned", "thrown"}
    /\ calls[c].agent_event_id \in EventIds
    /\ history[calls[c].agent_event_id].patched
    /\ history[calls[c].agent_event_id].row.status = "draft"
    /\ events[calls[c].agent_event_id].status \in {"executed", "error"}
    /\ events[calls[c].agent_event_id].output # history[calls[c].agent_event_id].row.output

\* Call c read an awaiting_confirmation (NoteAgent, update_note) event.
C17_NoteCall(c) ==
  /\ StatusRead(c) = "awaiting_confirmation"
  /\ calls[c].agentEvent.agent = "NoteAgent"
  /\ calls[c].agentEvent.action = "update_note"

\* C17: an agentConfirm call on a (NoteAgent, update_note) event that succeeds
\* changes, in its executor statement and on the note named by note_id, those of
\* summary_text, entities and content_md that the payload holds, to the
\* payload's values, and updated_at; every other field of that note, every
\* other note and every Task are unchanged; its last statement changes no note
\* and leaves the event executed with output {note_id, message: 'Note updated
\* successfully'}.
C17_NoteUpdated ==
  [][\A c \in DOMAIN calls :
       C17_NoteCall(c) =>
         LET p == calls[c].agentEvent.input
         IN /\ (calls[c].pc = "execute" /\ calls'[c].pc = "write") =>
                 /\ tasks' = tasks
                 /\ \A n \in NoteIds \ {p.note_id} : notes'[n] = notes[n]
                 /\ \A f \in {"summary_text", "entities", "content_md"} :
                      notes'[p.note_id][f] =
                        (IF f \in DOMAIN p THEN p[f] ELSE notes[p.note_id][f])
                 /\ \A f \in {"workspace_id", "title"} :
                      notes'[p.note_id][f] = notes[p.note_id][f]
                 /\ notes'[p.note_id].updated_at # notes[p.note_id].updated_at
            /\ (Completes(c) /\ calls'[c].pc = "returned") =>
                 /\ notes' = notes /\ tasks' = tasks
                 /\ events'[calls[c].agent_event_id].status = "executed"
                 /\ events'[calls[c].agent_event_id].output =
                      [note_id |-> p.note_id, message |-> "Note updated successfully"]]_vars

\* C17 witness: a call whose payload holds content_md and entities has returned:
\* note n1 has the new content and entities and its summary as before, note n2
\* is untouched, and the event is executed.
C17_Witness ==
  \E c \in DOMAIN calls :
    /\ calls[c].pc = "returned"
    /\ calls[c].agentEvent.input = NoteContent
    /\ notes["n1"].content_md = "New content"
    /\ notes["n1"].entities = [people |-> "Ann"]
    /\ notes["n1"].summary_text = InitialNote.summary_text
    /\ notes["n1"].updated_at # InitialNote.updated_at
    /\ notes["n2"] = InitialNote
    /\ events[calls[c].agent_event_id].status = "executed"

\* C18: an agentConfirm call on a (NoteAgent, update_note) event whose note_id
\* matches no note changes no Note row in any of its statements, throws the
\* note-not-found error, and leaves the event with status error and output
\* {error: that message}.
C18_MissingNote ==
  [][\A c \in DOMAIN calls :
       (C17_NoteCall(c) /\ calls[c].agentEvent.input.note_id \notin NoteIds) =>
         /\ calls'[c] # calls[c] => notes' = notes
         /\ Completes(c) =>
              /\ calls'[c].pc = "thrown"
              /\ calls'[c].error = NoteNotFoundError
              /\ events'[calls[c].agent_event_id].status = "error"
              /\ events'[calls[c].agent_event_id].output = [error |-> NoteNotFoundError]]_vars

\* C19: an agentConfirm call whose agent_event_id matches no event throws the
\* 'Agent event not found' error, and none of its statements creates or
\* modifies an AgentEvent, Task or Note row.
C19_MissingEvent ==
  [][\A c \in DOMAIN calls' :
       LET id == calls'[c].agent_event_id
       IN (id \notin EventIds /\ (c \notin DOMAIN calls \/ calls'[c] # calls[c])) =>
            /\ events' = events /\ tasks' = tasks /\ notes' = notes
            /\ calls'[c].error = NotFoundError
            /\ calls'[c].pc \in {"catch", "thrown"}]_vars

\* The failure that sends call c into the catch block, by its kind: a statement
\* the database rejects, no such event, an event not awaiting confirmation, a
\* pair without executor, or an error of the executor.
C20_OriginalFailure(call) ==
  IF call.agent_event_id = MalformedEventId THEN {DatabaseError}
  ELSE IF call.agentEvent = NULL THEN {NotFoundError}
  ELSE IF call.agentEvent.status # "awaiting_confirmation" THEN {NotAwaitingError}
  ELSE IF ~IsCreateTask(call.agentEvent) /\ ~IsUpdateNote(call.agentEvent)
    THEN {UnsupportedError}
  ELSE C13_ExecutorErrors

\* C20: when an agentConfirm call fails, the error it throws is the original
\* failure, unchanged: the error a call enters the catch block with is the one
\* of its failure, and the statement of the catch block ends the call by
\* throwing that same error, whether the write of the error status succeeds or
\* fails.
C20_OriginalErrorThrown ==
  [][\A c \in DOMAIN calls' :
       /\ ( /\ calls'[c].pc = "catch"
            /\ c \in DOMAIN calls => calls[c].pc # "catch" ) =>
            /\ calls'[c].error \in C20_OriginalFailure(calls'[c])
            /\ calls'[c].error # ""
       /\ ( /\ c \in DOMAIN calls
            /\ calls[c].pc = "catch"
            /\ calls'[c] # calls[c] ) =>
            /\ calls'[c].pc = "thrown"
            /\ calls'[c].error = calls[c].error]_vars

\* C20 witness: a call on an event without executor has thrown the
\* unsupported-action error although its write of the error status failed.
C20_Witness ==
  \E c \in DOMAIN calls :
    /\ calls[c].pc = "thrown"
    /\ calls[c].updateError
    /\ calls[c].error = UnsupportedError
    /\ events[calls[c].agent_event_id].status = "awaiting_confirmation"

\* C21: a crash or failure between the executor's statement and the write of the
\* executed status leaves no Task created or Note updated for an event that is
\* still awaiting_confirmation: whenever a call whose executor wrote has ended
\* without returning, by a crash or by throwing, its event, if no
\* updateAgentEvent wrote it, is not awaiting_confirmation.
C21_NoOrphanedWrite ==
  \A c \in DOMAIN calls :
    ( /\ calls[c].pc \in {"crashed", "thrown"}
      /\ calls[c].actionOutput # NULL
      /\ ~history[calls[c].agent_event_id].patched ) =>
      events[calls[c].agent_event_id].status # "awaiting_confirmation"

\* C22: updateAgentEvent does not enforce the lifecycle order: a patch with
\* status t on an existing event succeeds and stores t, whatever the event's
\* status s and output are, for every pair (s, t) of the four statuses.
C22_AnyStatusPair ==
  [][\A id \in EventIds, t \in agentEventStatusEnum :
       UpdateAgentEvent([id |-> id, status |-> t]) =>
         /\ ret' = [op |-> "updateAgentEvent", ok |-> TRUE, id |-> id]
         /\ events'[id].status = t
         /\ events'[id].output = events[id].output]_vars

\* C22 witness: an event created executed with a null output was patched back
\* to draft.
C22_Witness ==
  \E e \in EventIds :
    /\ ret = [op |-> "updateAgentEvent", ok |-> TRUE, id |-> e]
    /\ history[e].row.status = "executed" /\ history[e].row.output = NULL
    /\ events[e].status = "draft" /\ events[e].output = NULL

\* C23: updateAgentEvent with an id that matches no event fails with the
\* not-found error and modifies no event.
C23_UpdateMissing ==
  [][\A input \in UpdateInputs :
       (input.id \notin EventIds /\ UpdateAgentEvent(input)) =>
         /\ ret' = [op |-> "updateAgentEvent", ok |-> FALSE, error |-> "not found"]
         /\ events' = events]_vars

\* C24: getAgentEvents(workspaceId, status?) returns exactly the stored events
\* whose workspace_id is workspaceId and, when a status is given, whose status
\* is that status, each once, ordered by created_at from newest to oldest, and
\* modifies nothing, for every workspaceId and status.
C24_ExactlyTheMatchingEvents ==
  [][\A w \in QueryWorkspaces, st \in agentEventStatusEnum \cup {Undefined} :
       GetAgentEvents(w, st) =>
         /\ ret'.ok
         /\ { ret'.results[i].id : i \in DOMAIN ret'.results } =
              { e \in EventIds :
                  events[e].workspace_id = w /\ (st = Undefined \/ events[e].status = st) }
         /\ \A i \in DOMAIN ret'.results :
              ret'.results[i].event = events[ret'.results[i].id]
         /\ \A i, j \in DOMAIN ret'.results :
              i < j => ret'.results[i].event.created_at > ret'.results[j].event.created_at
         /\ events' = events /\ tasks' = tasks /\ notes' = notes]_vars

\* C25: createAgentEvent stores one event with the agent, action, input, output
\* and status given, input and output null when absent and status draft when
\* absent; with a workspace_id that references no existing workspace it fails
\* with the foreign-key error and inserts no event.
C25_CreateAsGiven ==
  [][\A input \in CreateAnyInputs :
       CreateAgentEvent(input) =>
         IF input.workspace_id \in Workspaces
           THEN /\ ret' = [op |-> "createAgentEvent", ok |-> TRUE, id |-> Len(events')]
                /\ Len(events') = Len(events) + 1
                /\ \A e \in EventIds : events'[e] = events[e]
                /\ LET row == events'[Len(events')]
                   IN /\ row.workspace_id = input.workspace_id
                      /\ row.agent = input.agent /\ row.action = input.action
                      /\ row.input = (IF "input" \in DOMAIN input THEN input.input ELSE NULL)
                      /\ row.output = (IF "output" \in DOMAIN input THEN input.output ELSE NULL)
                      /\ row.status = (IF "status" \in DOMAIN input THEN input.status ELSE "draft")
           ELSE /\ ret' = [op |-> "createAgentEvent", ok |-> FALSE,
                           error |-> "foreign key violation"]
                /\ events' = events]_vars

\* C26: in every state with no agentConfirm call in flight and no event written
\* by updateAgentEvent, each Task is the output.task_id of exactly one event
\* with status executed.
C26_EveryTaskRecorded ==
  (Quiet /\ \A e \in EventIds : ~history[e].patched) =>
    \A t \in DOMAIN tasks :
      Cardinality({ e \in EventIds :
                      /\ events[e].status = "executed"
                      /\ events[e].output =
                           [task_id |-> t, message |-> "Task created successfully"] }) = 1

\* C27: when the status of an event was changed after an agentConfirm call read
\* it as awaiting_confirmation, the last statement of that call does not
\* overwrite it: the call's status write changes the status and output only of
\* an event that is awaiting_confirmation at the moment of the write.
C27_NoLostPatch ==
  [][\A c \in DOMAIN calls :
       ( /\ Completes(c)
         /\ StatusRead(c) = "awaiting_confirmation"
         /\ events[calls[c].agent_event_id].status # "awaiting_confirmation" ) =>
         events'[calls[c].agent_event_id] = events[calls[c].agent_event_id]]_vars

C29_WritesInsideWorkspace ==
  [][\A c \in DOMAIN calls :
       (calls[c].pc = "execute" /\ calls'[c].pc = "write") =>
         /\ tasks' # tasks =>
              tasks'[Len(tasks')].workspace_id = calls[c].agentEvent.workspace_id
         /\ \A n \in NoteIds :
              notes'[n] # notes[n] =>
                notes[n].workspace_id = calls[c].agentEvent.workspace_id]_vars

\* The transcribeMeeting calls on note n that have returned.
C30_Returned(n) ==
  { t \in DOMAIN transcribes :
      transcribes[t].note_id = n /\ transcribes[t].pc = "returned" }

\* The chunks of the calls order[1], ..., order[k], separated by single spaces.
RECURSIVE C30_Joined(_, _)
C30_Joined(order, k) ==
  IF k = 0 THEN ""
  ELSE IF k = 1 THEN transcribes[order[1]].transcriptChunk
  ELSE C30_Joined(order, k - 1) \o " " \o transcribes[order[k]].transcriptChunk

\* C30: once every transcribeMeeting call on an existing note has completed,
\* the note's transcript_text holds the chunk of every call that returned, each
\* once, in some order of the calls, separated by single spaces: no chunk is
\* lost, also when calls overlap.
C30_NoChunkLost ==
  \A n \in NoteIds :
    ( /\ C30_Returned(n) # {}
      /\ \A t \in DOMAIN transcribes :
           transcribes[t].note_id = n => transcribes[t].pc \in {"returned", "thrown"} ) =>
      LET k == Cardinality(C30_Returned(n))
      IN \E order \in [1..k -> C30_Returned(n)] :
           /\ \A i, j \in 1..k : i # j => order[i] # order[j]
           /\ notes[n].transcript_text = C30_Joined(order, k)
====
